---------------------------- MODULE Spec2Model ----------------------------
(***************************************************************************)
(* Model of ts-service-locator (src/src/index.ts).                         *)
(*                                                                         *)
(* The module-level store `instances` is an ordinary JavaScript object     *)
(* literal, so it has own properties and a [[Prototype]] that starts as    *)
(* Object.prototype.  `instances[id]` is an ordinary [[Get]] and           *)
(* `instances[id] = v` an ordinary [[Set]] in strict (ES module) code:     *)
(* both walk the prototype chain, and both are modelled that way here.     *)
(*                                                                         *)
(* Values handed to the locator are data-only: primitives and objects      *)
(* with data properties.  Objects carrying caller-written accessors or     *)
(* proxies are outside the model.                                          *)
(***************************************************************************)
EXTENDS Naturals, FiniteSets

VARIABLES
    instances,  \* the module-level store: own properties and [[Prototype]]
    locators,   \* the locator objects createServiceLocator has returned
    last,       \* the most recent call: arguments, result, whether it threw
    prevSet,    \* the set call made immediately before `last`, if any
    everSet,    \* string keys that have been passed to set so far
    present     \* string keys for which some get has returned a value

vars == <<instances, locators, last, prevSet, everSet, present>>

(***************************************************************************)
(* Bounds                                                                  *)
(***************************************************************************)
MaxLocators == 2

(***************************************************************************)
(* JavaScript values.  Each value is named by a string: "0" names the      *)
(* number 0, not a string of one character.                                *)
(***************************************************************************)
Undefined == "undefined"
Null == "null"
ObjectPrototype == "Object.prototype"
ToStringFn == "Object.prototype.toString"
MockServer == "mockServer"          \* { fetchUsers: jest.fn() }
FrozenObj == "frozenObj"            \* Object.freeze({ server: 1 })
BareObj == "bareObj"                \* Object.create(null)

Zero == "0"                         \* the number 0
One == "1"                          \* the number 1
EmptyString == "''"
False == "false"
NaN == "NaN"

\* the values callers pass as `instance`
Values == {Zero, One, MockServer, FrozenObj, BareObj}

\* absence of an own property (not a JavaScript value)
NoProp == "<no own property>"

\* the keys callers pass as `instanceId`: three strings and the number 7
StrKey(n) == [type |-> "string", name |-> n]
NumKey(n) == [type |-> "number", name |-> n]
StringNames == {"server", "toString", "__proto__"}
PropNames == StringNames \cup {"7"}
Keys == {StrKey(n) : n \in StringNames} \cup {NumKey("7")}

\* ToBoolean
Truthy(v) == v \notin {Undefined, Null, Zero, EmptyString, False, NaN}

\* Type(v) is Object
IsObject(v) == v \in {MockServer, FrozenObj, BareObj, ObjectPrototype, ToStringFn}

\* [[Prototype]] of the objects a caller can hand in, and of Object.prototype
ProtoOf(o) ==
    CASE o = MockServer -> ObjectPrototype
      [] o = FrozenObj -> ObjectPrototype
      [] o = BareObj -> Null
      [] o = ObjectPrototype -> Null
      [] OTHER -> Null

\* own property descriptor of property p of heap object o
NoDesc == [kind |-> "none", value |-> Undefined, writable |-> FALSE]
DataDesc(v, w) == [kind |-> "data", value |-> v, writable |-> w]
ProtoAccessor == [kind |-> "accessor", value |-> Undefined, writable |-> FALSE]

OwnDesc(o, p) ==
    CASE o = ObjectPrototype /\ p = "toString" -> DataDesc(ToStringFn, TRUE)
      [] o = ObjectPrototype /\ p = "__proto__" -> ProtoAccessor
      [] o = FrozenObj /\ p = "server" -> DataDesc(One, FALSE)
      [] OTHER -> NoDesc

\* first descriptor of p found walking the prototype chain from o
RECURSIVE ChainDesc(_, _)
ChainDesc(o, p) ==
    IF o = Null THEN NoDesc
    ELSE IF OwnDesc(o, p).kind # "none" THEN OwnDesc(o, p)
    ELSE ChainDesc(ProtoOf(o), p)


(***************************************************************************)
(* The store object                                                        *)
(***************************************************************************)
\* const instances: Record<string, any> = {}
EmptyStore == [own |-> [p \in PropNames |-> NoProp], proto |-> ObjectPrototype]

\* instances[p]: OrdinaryGet with the store as receiver.  The inherited
\* __proto__ getter answers the receiver's [[Prototype]].
StoreGet(st, p) ==
    IF st.own[p] # NoProp THEN st.own[p]
    ELSE LET d == ChainDesc(st.proto, p)
         IN  CASE d.kind = "data" -> d.value
               [] d.kind = "accessor" -> st.proto
               [] OTHER -> Undefined

\* instances[p] = v: OrdinarySet with the store as receiver, strict mode.
\*   own data property           -> overwritten
\*   inherited read-only data    -> TypeError
\*   inherited __proto__ setter  -> [[SetPrototypeOf]] for an object or null,
\*                                  nothing at all for any other value
\*   otherwise                   -> a new own property
StoreSet(st, p, v) ==
    LET define == [store |-> [st EXCEPT !.own[p] = v], threw |-> FALSE]
        d == ChainDesc(st.proto, p)
    IN  IF st.own[p] # NoProp THEN define
        ELSE CASE d.kind = "data" ->
                    IF d.writable THEN define
                    ELSE [store |-> st, threw |-> TRUE]
               [] d.kind = "accessor" ->
                    IF IsObject(v) \/ v = Null
                    THEN [store |-> [st EXCEPT !.proto = v], threw |-> FALSE]
                    ELSE [store |-> st, threw |-> FALSE]
               [] OTHER -> define

(***************************************************************************)
(* src/src/index.ts                                                        *)
(***************************************************************************)
\* typeof arg === "string"
isString(arg) == arg.type = "string"

\* set as it would be if a falsy instance cleared the entry
setOrUnset(st, instanceId, instance) ==
    IF ~isString(instanceId) THEN [store |-> st, threw |-> FALSE]
    ELSE IF Truthy(instance) THEN StoreSet(st, instanceId.name, instance)
    ELSE [store |-> [st EXCEPT !.own[instanceId.name] = NoProp],
          threw |-> FALSE]

\* the body of set: the store after the call and whether the call threw
set(st, instanceId, instance) ==
    IF isString(instanceId)
    THEN StoreSet(st, instanceId.name, instance)
    ELSE [store |-> st, threw |-> FALSE]

\* get as it would be if a miss left an entry behind
getRemembering(st, instanceId) ==
    IF isString(instanceId) /\ Truthy(StoreGet(st, instanceId.name))
    THEN [result |-> StoreGet(st, instanceId.name), store |-> st]
    ELSE [result |-> Undefined,
          store |-> [st EXCEPT !.own[instanceId.name] = Undefined]]

\* the body of get: the value returned and the store after the call
get(st, instanceId) ==
    IF isString(instanceId) /\ Truthy(StoreGet(st, instanceId.name))
    THEN [result |-> StoreGet(st, instanceId.name), store |-> st]
    ELSE [result |-> Undefined, store |-> st]

\* the factory as it would be if each call made its own store
createServiceLocatorFresh(st, locs) ==
    [store |-> EmptyStore, locators |-> locs \cup {Cardinality(locs) + 1}]

\* the factory: a fresh object holding the two closures; the store it
\* closes over is the module-level one and is not touched
createServiceLocator(st, locs) ==
    [store |-> st, locators |-> locs \cup {Cardinality(locs) + 1}]

(***************************************************************************)
(* State machine                                                           *)
(***************************************************************************)
NoKey == [type |-> "none", name |-> "none"]
NoCall == [op |-> "none", loc |-> 0, key |-> NoKey, value |-> Undefined,
           result |-> Undefined, threw |-> FALSE]

\* module load: the store exists, no locator has been created yet
Init ==
    /\ instances = EmptyStore
    /\ locators = {}
    /\ last = NoCall
    /\ prevSet = NoCall
    /\ everSet = {}
    /\ present = {}

Create ==
    /\ Cardinality(locators) < MaxLocators
    /\ LET r == createServiceLocator(instances, locators)
       IN  /\ instances' = r.store
           /\ locators' = r.locators
           /\ last' = [NoCall EXCEPT !.op = "create",
                                     !.loc = Cardinality(r.locators)]

Set(l, k, v) ==
    /\ l \in locators
    /\ LET r == set(instances, k, v)
       IN  /\ instances' = r.store
           /\ last' = [op |-> "set", loc |-> l, key |-> k, value |-> v,
                       result |-> Undefined, threw |-> r.threw]
    /\ UNCHANGED locators

Get(l, k) ==
    /\ l \in locators
    /\ LET r == get(instances, k)
       IN  /\ instances' = r.store
           /\ last' = [op |-> "get", loc |-> l, key |-> k, value |-> Undefined,
                       result |-> r.result, threw |-> FALSE]
    /\ UNCHANGED locators

(***************************************************************************)
(* History kept beside the program state.  Spec records the set calls:     *)
(* the one made immediately before the last call, and every string key     *)
(* passed to set so far.  SpecObserved records instead the string keys     *)
(* for which a get has returned a value.                                   *)
(***************************************************************************)
StringKeyOf(call) == IF call.key.type = "string" THEN {call.key.name} ELSE {}

TrackSets ==
    /\ prevSet' = IF last.op = "set" THEN [last EXCEPT !.loc = 0] ELSE NoCall
    /\ everSet' = IF last'.op = "set" THEN everSet \cup StringKeyOf(last')
                  ELSE everSet
    /\ UNCHANGED present

TrackPresent ==
    /\ present' = IF last'.op = "get" /\ last'.result # Undefined
                  THEN present \cup StringKeyOf(last')
                  ELSE present
    /\ UNCHANGED <<prevSet, everSet>>

Next ==
    \/ Create /\ TrackSets
    \/ \E l \in 1..MaxLocators, k \in Keys, v \in Values :
          Set(l, k, v) /\ TrackSets
    \/ \E l \in 1..MaxLocators, k \in Keys : Get(l, k) /\ TrackSets

Spec == Init /\ [][Next]_vars

NextObserved ==
    \/ Create /\ TrackPresent
    \/ \E l \in 1..MaxLocators, k \in Keys, v \in Values :
          Set(l, k, v) /\ TrackPresent
    \/ \E l \in 1..MaxLocators, k \in Keys : Get(l, k) /\ TrackPresent

SpecObserved == Init /\ [][NextObserved]_vars

(***************************************************************************)
(* Properties                                                              *)
(***************************************************************************)
\* what get(k) would return in store st
Lookup(st, k) == get(st, k).result

\* the last two calls were set(k, v) and then get(k), for a string key k
SetThenGet ==
    /\ last.op = "get"
    /\ prevSet.op = "set"
    /\ prevSet.key = last.key
    /\ isString(last.key)

\* C1: a string key never passed to set on any locator is absent: get on
\* it returns undefined, whatever was done with other keys.
C1_NeverSetIsAbsent ==
    (last.op = "get" /\ isString(last.key) /\ last.key.name \notin everSet)
        => last.result = Undefined

\* C2: set(k, v) with a truthy v, immediately followed by get(k), returns v.
C2_SetThenGetReturnsValue ==
    (SetThenGet /\ Truthy(prevSet.value)) => last.result = prevSet.value

\* C3: last write wins: after set(k, v1) and then set(k, v2), get(k)
\* returns v2 (absent when v2 is falsy) and the second set raises no error.
C3_LastWriteWins ==
    [][(/\ prevSet.op = "set"
        /\ last.op = "set"
        /\ prevSet.key = last.key
        /\ isString(last.key)
        /\ last'.op = "get"
        /\ last'.key = last.key)
          => /\ ~last.threw
             /\ last'.result = IF Truthy(last.value) THEN last.value
                               ELSE Undefined]_vars

\* C4: a set(k, v) with a truthy v on one locator makes get(k) on another
\* locator return v.
C4_CrossInstanceVisibility ==
    [][(/\ last.op = "set"
        /\ isString(last.key)
        /\ Truthy(last.value)
        /\ last'.op = "get"
        /\ last'.key = last.key
        /\ last'.loc # last.loc)
          => last'.result = last.value]_vars

\* C5: set(k, f) with a falsy f, followed by get(k), returns absent.
C5_FalsyReadsAbsent ==
    (SetThenGet /\ ~Truthy(prevSet.value)) => last.result = Undefined

C8_NeverThrows ==
    [][/\ (last'.op = "set" /\ ~isString(last'.key)) => instances' = instances
       /\ (last'.op = "get" /\ ~isString(last'.key)) => last'.result = Undefined
       /\ ~last'.threw]_vars

\* C9: set(k, v) changes what get returns for no string key other than k.
C9_SetTouchesOnlyItsKey ==
    [][last'.op = "set"
          => \A n \in StringNames :
                StrKey(n) # last'.key
                  => Lookup(instances', StrKey(n)) = Lookup(instances, StrKey(n))]_vars

\* C10: a call of the factory leaves the store as it was: every key reads
\* after the call, on any locator, what it read before it.
C10_FactoryKeepsStore ==
    [][last'.op = "create"
          => /\ instances' = instances
             /\ \A k \in Keys : Lookup(instances', k) = Lookup(instances, k)]_vars

\* a second locator created once the store holds a value that get returns
C10_Witness ==
    /\ last.op = "create"
    /\ Cardinality(locators) >= 2
    /\ \E n \in everSet : instances.own[n] # NoProp
                           /\ Lookup(instances, StrKey(n)) # Undefined

=============================================================================
